---- MODULE Spec2Model ----
(***************************************************************************)
(* Model of Python_scripts/train_model.py: the gesture-classifier training *)
(* pipeline (load -> split & class weights -> build -> head training ->    *)
(* fine-tuning -> save & export).                                          *)
(*                                                                         *)
(* Losses are integers in units of 1e-4 (the default min_delta of          *)
(* ReduceLROnPlateau), learning rates are kept as base * 0.3^decays, class *)
(* weights are exact fractions num/den.  y_tr / y_val keep the label       *)
(* histogram of each split (the order of a shuffled split is irrelevant to *)
(* everything downstream).                                                 *)
(***************************************************************************)
EXTENDS Integers, Sequences, FiniteSets, TLC

VARIABLES
  pc,            \* position of the script
  ci, fi,        \* load_all: class index i and number of files already globbed in that class
  X, y,          \* load_all: feature list and label list
  warns,         \* number of "[WARN] Skipping" lines printed
  seen,          \* history: [files |-> files handed to preprocess, bad |-> of which invalid, last |-> last file]
  y_tr, y_val,   \* label histograms of the two splits (NoValue before the split)
  class_weights, \* class index -> fraction (NoValue before computed)
  err,           \* the exception that ended the run (NoErr if none)
  layers,        \* base.layers[i].trainable, i in 1..n
  baseTrainable, \* base.trainable
  lr,            \* optimizer learning rate: [base, decays] = base * 0.3^decays
  phase, epoch,  \* current fit call (0 none, 1 head, 2 fine-tune) and passes run in it
  weights,       \* model parameters, named by the pass that produced them: <<phase, pass>>
  es, rlr,       \* callback objects cbs[0] (EarlyStopping) and cbs[1] (ReduceLROnPlateau)
  hist,          \* history of the current fit: [minLoss, minPass, stale, decays, lastLoss]
  fits,          \* history of fit calls: [started, ended, passes, early] each indexed by phase
  artifacts,     \* files written to the working directory
  restoreAtEnd   \* Keras build: TRUE if EarlyStopping restores best weights in on_train_end
                 \* (Keras 3), FALSE if only when it stops training itself (tf.keras 2.x)

vars == <<pc, ci, fi, X, y, warns, seen, y_tr, y_val, class_weights, err, layers,
          baseTrainable, lr, phase, epoch, weights, es, rlr, hist, fits, artifacts,
          restoreAtEnd>>

loadVars  == <<ci, fi, X, y, warns, seen>>
splitVars == <<y_tr, y_val, class_weights>>
modelVars == <<layers, baseTrainable>>
trainVars == <<lr, phase, epoch, weights, es, rlr, hist, fits>>

----------------------------------------------------------------------------
(* Program constants *)
TARGET == 216
NumClasses == 5
PatienceES == 5
PatienceLR == 3
MinDelta == 1
EpochsHead == 10
EpochsFine == 30
LrHead == 10
LrFine == 1

(* Bounds of the model *)
MaxFiles == 2
MaxCount == 6
MaxLayers == 4
MaxLoss == 5

Classes == 0 .. (NumClasses - 1)
Losses == 0 .. MaxLoss
\* stands for np.inf: larger than any loss plus min_delta
Inf == MaxLoss + MinDelta + 1
NoValue == <<>>
NoClass == NumClasses
NoErr == [stage |-> "none", kind |-> "none", cls |-> NoClass]

----------------------------------------------------------------------------
(* Image Loader *)

Sizes == {TARGET, TARGET + 1}

\* what cv2.imread can return for a path: None (decoded = FALSE) or an array of some shape
Images == {[decoded |-> FALSE, h |-> 0, w |-> 0]}
            \cup [decoded : {TRUE}, h : Sizes, w : Sizes]

Sample == [h |-> TARGET, w |-> TARGET, ch |-> 3]

preprocessHeightOnly(bgr) ==
  IF ~bgr.decoded \/ bgr.h # TARGET
    THEN [sample |-> NoValue, warn |-> 1]
    ELSE [sample |-> [h |-> bgr.h, w |-> bgr.w, ch |-> 3], warn |-> 0]

\* preprocess(path): the returned value and the number of lines printed
preprocess(bgr) ==
  IF ~bgr.decoded \/ bgr.h # TARGET \/ bgr.w # TARGET
    THEN [sample |-> NoValue, warn |-> 1]
    ELSE [sample |-> [h |-> bgr.h, w |-> bgr.w, ch |-> 3], warn |-> 0]

Valid(bgr) == bgr.decoded /\ bgr.h = TARGET /\ bgr.w = TARGET

\* one iteration of the inner loop of load_all: the next globbed file of class ci
LoadFile ==
  /\ pc = "load"
  /\ fi < MaxFiles
  /\ \E bgr \in Images :
       LET img == preprocess(bgr) IN
         /\ IF img.sample # NoValue
              THEN X' = Append(X, img.sample) /\ y' = Append(y, ci)
              ELSE UNCHANGED <<X, y>>
         /\ warns' = warns + img.warn
         /\ seen' = [files |-> seen.files + 1,
                     bad   |-> seen.bad + (IF Valid(bgr) THEN 0 ELSE 1),
                     last  |-> bgr]
  /\ fi' = fi + 1
  /\ UNCHANGED <<pc, ci, splitVars, err, modelVars, trainVars, artifacts, restoreAtEnd>>

\* the glob of class ci is exhausted: next class of CLASS_NAMES
NextClass ==
  /\ pc = "load"
  /\ ci < NumClasses - 1
  /\ ci' = ci + 1
  /\ fi' = 0
  /\ UNCHANGED <<pc, X, y, warns, seen, splitVars, err, modelVars, trainVars,
                 artifacts, restoreAtEnd>>

\* the glob of the last class is exhausted: load_all returns
LoadDone ==
  /\ pc = "load"
  /\ ci = NumClasses - 1
  /\ pc' = "split"
  /\ UNCHANGED <<loadVars, splitVars, err, modelVars, trainVars, artifacts, restoreAtEnd>>

----------------------------------------------------------------------------
(* Split & Balance *)

RECURSIVE CountIn(_, _)
CountIn(s, c) ==
  IF s = <<>> THEN 0
  ELSE (IF s[1] = c THEN 1 ELSE 0) + CountIn(Tail(s), c)

\* np.bincount over the fixed class index space
Histogram(s) == [c \in Classes |-> CountIn(s, c)]

RECURSIVE SumTo(_, _)
SumTo(f, k) == IF k < 0 THEN 0 ELSE f[k] + SumTo(f, k - 1)
Total(f) == SumTo(f, NumClasses - 1)

Present(h) == {c \in Classes : h[c] > 0}

\* ceil(0.2 * n) and the complement (sklearn _validate_shuffle_split)
NTest(n) == (n + 4) \div 5
NTrain(n) == n - NTest(n)

\* the exception train_test_split(X, y, test_size=0.2, stratify=y) raises, if any;
\* none of sklearn's messages names a class
SplitError(h) ==
  LET n == Total(h) IN
    IF NTrain(n) = 0 THEN "empty_train_set"
    ELSE IF \E c \in Present(h) : h[c] < 2 THEN "least_populated_class_has_1_member"
    ELSE IF NTrain(n) < Cardinality(Present(h)) THEN "train_size_lt_n_classes"
    ELSE IF NTest(n) < Cardinality(Present(h)) THEN "test_size_lt_n_classes"
    ELSE "none"

\* sklearn _approximate_mode: floor of the proportional share, the remaining
\* places go to the largest remainders, ties broken by the seeded generator
TrainAllocations(h) ==
  LET n     == Total(h)
      share(c) == (h[c] * NTrain(n)) \div n
      rem(c)   == (h[c] * NTrain(n)) % n
      floorSum == Total([c \in Classes |-> share(c)])
      need  == NTrain(n) - floorSum
  IN { [c \in Classes |-> share(c) + (IF c \in S THEN 1 ELSE 0)] :
         S \in { T \in SUBSET Classes :
                   /\ Cardinality(T) = need
                   /\ \A c \in T : \A d \in Classes \ T : rem(c) >= rem(d) } }

SplitOk ==
  /\ pc = "split"
  /\ SplitError(Histogram(y)) = "none"
  /\ \E tr \in TrainAllocations(Histogram(y)) :
       /\ y_tr' = tr
       /\ y_val' = [c \in Classes |-> Histogram(y)[c] - tr[c]]
  /\ pc' = "class_weights"
  /\ UNCHANGED <<loadVars, class_weights, err, modelVars, trainVars, artifacts, restoreAtEnd>>

SplitFail ==
  /\ pc = "split"
  /\ SplitError(Histogram(y)) # "none"
  /\ err' = [stage |-> "train_test_split", kind |-> SplitError(Histogram(y)),
             cls |-> NoClass]
  /\ pc' = "error"
  /\ UNCHANGED <<loadVars, splitVars, modelVars, trainVars, artifacts, restoreAtEnd>>

WeightLabelsTrain == y_tr

\* the y argument of compute_class_weight: the full label array
WeightLabels == Histogram(y)

\* sklearn compute_class_weight("balanced"): len(y) / (n_classes_in_y * bincount(y))
Balanced(h) ==
  [c \in Classes |-> [num |-> Total(h), den |-> Cardinality(Present(h)) * h[c]]]

ClassWeightsOk ==
  /\ pc = "class_weights"
  /\ Present(WeightLabels) = Classes
  /\ class_weights' = Balanced(WeightLabels)
  /\ pc' = "build"
  /\ UNCHANGED <<loadVars, y_tr, y_val, err, modelVars, trainVars, artifacts, restoreAtEnd>>

\* "classes should have valid labels that are in y"
ClassWeightsFail ==
  /\ pc = "class_weights"
  /\ Present(WeightLabels) # Classes
  /\ err' = [stage |-> "compute_class_weight", kind |-> "classes_not_in_y", cls |-> NoClass]
  /\ pc' = "error"
  /\ UNCHANGED <<loadVars, splitVars, modelVars, trainVars, artifacts, restoreAtEnd>>

----------------------------------------------------------------------------
(* Model Builder *)

\* MobileNetV2 with base.trainable = False (freezes every layer of the base),
\* head, compile with Adam(1e-3), creation of the two callbacks
BuildModel ==
  /\ pc = "build"
  /\ \E n \in 1 .. MaxLayers : layers' = [i \in 1 .. n |-> FALSE]
  /\ baseTrainable' = FALSE
  /\ lr' = [base |-> LrHead, decays |-> 0]
  /\ es' = [wait |-> 0, best |-> Inf, best_weights |-> NoValue, best_epoch |-> 0,
            stopped_epoch |-> 0]
  /\ rlr' = [best |-> Inf, wait |-> 0, cooldown_counter |-> 0]
  /\ pc' = "head_begin"
  /\ UNCHANGED <<loadVars, splitVars, err, phase, epoch, weights, hist, fits,
                 artifacts, restoreAtEnd>>

----------------------------------------------------------------------------
(* Training Controller *)

\* epochs= of the two fit calls
MaxEpochs(p) == IF p = 1 THEN EpochsHead ELSE EpochsFine

AfterFitSkip(p, stopped) == IF p = 1 /\ ~stopped THEN "unfreeze" ELSE "save"

AfterFitCheckpoint(p, stopped) == IF p = 1 /\ stopped THEN "unfreeze" ELSE "save"

\* the statement that follows each fit call
AfterFit(p, stopped) == IF p = 1 THEN "unfreeze" ELSE "save"

ESKeep(e) == e

\* EarlyStopping.on_train_begin
ESOnTrainBegin(e) ==
  [wait |-> 0, best |-> Inf, best_weights |-> NoValue, best_epoch |-> 0, stopped_epoch |-> 0]

\* ReduceLROnPlateau.on_train_begin (_reset)
RLROnTrainBegin(r) == [best |-> Inf, wait |-> 0, cooldown_counter |-> 0]

\* EarlyStopping(patience=5, restore_best_weights=True).on_epoch_end, monitor val_loss,
\* min_delta 0; ep is the 0-based epoch index, w the weights after this pass
ESOnEpochEnd(e, ep, current, w) ==
  LET e1 == IF e.best_weights = NoValue
              THEN [e EXCEPT !.best_weights = w, !.best_epoch = ep] ELSE e
      e2 == [e1 EXCEPT !.wait = e1.wait + 1]
  IN IF current < e2.best
       THEN [es |-> [e2 EXCEPT !.best = current, !.best_epoch = ep,
                               !.best_weights = w, !.wait = 0],
             stop |-> FALSE, weights |-> w]
       ELSE IF e2.wait >= PatienceES /\ ep > 0
         THEN [es |-> [e2 EXCEPT !.stopped_epoch = ep], stop |-> TRUE,
               weights |-> IF restoreAtEnd THEN w ELSE e2.best_weights]
         ELSE [es |-> e2, stop |-> FALSE, weights |-> w]

\* EarlyStopping.on_train_end: model.set_weights(best_weights) on builds that restore there
ESOnTrainEnd(e, w) ==
  IF restoreAtEnd /\ e.best_weights # NoValue THEN e.best_weights ELSE w

RLRNever(r, l, current) ==
  [rlr |-> IF current < r.best - MinDelta THEN [r EXCEPT !.best = current] ELSE r,
   lr |-> l]

\* ReduceLROnPlateau(factor=0.3, patience=3).on_epoch_end, monitor val_loss,
\* min_delta 1e-4, cooldown 0, min_lr 0
RLROnEpochEnd(r, l, current) ==
  LET r1 == IF r.cooldown_counter > 0
              THEN [r EXCEPT !.cooldown_counter = r.cooldown_counter - 1, !.wait = 0]
              ELSE r
  IN IF current < r1.best - MinDelta
       THEN [rlr |-> [r1 EXCEPT !.best = current, !.wait = 0], lr |-> l]
       ELSE IF r1.cooldown_counter > 0
         THEN [rlr |-> r1, lr |-> l]
         ELSE IF r1.wait + 1 >= PatienceLR
           THEN [rlr |-> [r1 EXCEPT !.wait = 0, !.cooldown_counter = 0],
                 lr |-> [l EXCEPT !.decays = l.decays + 1]]
           ELSE [rlr |-> [r1 EXCEPT !.wait = r1.wait + 1], lr |-> l]

\* model.fit(...) is entered: callbacks' on_train_begin
TrainBegin ==
  /\ pc \in {"head_begin", "fine_begin"}
  /\ LET p == IF pc = "head_begin" THEN 1 ELSE 2 IN
       /\ phase' = p
       /\ fits' = [fits EXCEPT !.started[p] = fits.started[p] + 1]
       /\ pc' = IF p = 1 THEN "head" ELSE "fine"
  /\ epoch' = 0
  /\ es' = ESOnTrainBegin(es)
  /\ rlr' = RLROnTrainBegin(rlr)
  /\ hist' = [minLoss |-> Inf, minPass |-> 0, stale |-> 0, decays |-> 0, lastLoss |-> Inf]
  /\ UNCHANGED <<loadVars, splitVars, err, modelVars, lr, weights, artifacts, restoreAtEnd>>

\* one pass over the training data, validation, the callbacks' on_epoch_end in list
\* order and, if this was the last pass of the fit, their on_train_end
Epoch ==
  /\ pc \in {"head", "fine"}
  /\ epoch < MaxEpochs(phase)
  /\ \E val_loss \in Losses :
       LET w    == <<phase, epoch + 1>>
           e    == ESOnEpochEnd(es, epoch, val_loss, w)
           r    == RLROnEpochEnd(rlr, lr, val_loss)
           last == e.stop \/ epoch + 1 = MaxEpochs(phase)
           better == val_loss < hist.minLoss
       IN /\ es' = e.es
          /\ rlr' = r.rlr
          /\ lr' = r.lr
          /\ epoch' = epoch + 1
          /\ weights' = IF last THEN ESOnTrainEnd(e.es, e.weights) ELSE e.weights
          /\ hist' = [minLoss |-> IF better THEN val_loss ELSE hist.minLoss,
                      minPass |-> IF better THEN epoch + 1 ELSE hist.minPass,
                      stale   |-> IF better THEN 0 ELSE hist.stale + 1,
                      decays  |-> hist.decays + (r.lr.decays - lr.decays),
                      lastLoss |-> val_loss]
          /\ fits' = IF last
                       THEN [fits EXCEPT !.ended[phase] = fits.ended[phase] + 1,
                                         !.passes[phase] = epoch + 1,
                                         !.early[phase] = e.stop]
                       ELSE fits
          /\ pc' = IF last THEN AfterFit(phase, e.stop) ELSE pc
  /\ UNCHANGED <<loadVars, splitVars, err, modelVars, phase, artifacts, restoreAtEnd>>

FirstUnfrozenFifth(n) == n \div 5

\* int(0.8*n): index (0-based) of the first layer of the slice base.layers[int(0.8*n):]
FirstUnfrozen(n) == (4 * n) \div 5

\* the unfreeze loop and the recompile with Adam(1e-4)
Unfreeze ==
  /\ pc = "unfreeze"
  /\ LET n == Len(layers) IN
       layers' = [i \in 1 .. n |-> IF i - 1 >= FirstUnfrozen(n) THEN TRUE ELSE layers[i]]
  /\ lr' = [base |-> LrFine, decays |-> 0]
  /\ pc' = "fine_begin"
  /\ UNCHANGED <<loadVars, splitVars, err, baseTrainable, phase, epoch, weights, es, rlr,
                 hist, fits, artifacts, restoreAtEnd>>

----------------------------------------------------------------------------
(* Exporter *)

AfterExportSwallow(ok) == "done"

\* end of the script after tf2onnx.convert.from_keras returned or raised
AfterExport(ok) == IF ok THEN "done" ELSE "error"

\* model.save("best_cnn.keras"): returns, or raises and ends the run
Save ==
  /\ pc = "save"
  /\ \E ok \in BOOLEAN :
       IF ok
         THEN /\ artifacts' = artifacts \cup {"best_cnn.keras"}
              /\ pc' = "export"
              /\ UNCHANGED err
         ELSE /\ err' = [stage |-> "model.save", kind |-> "best_cnn.keras", cls |-> NoClass]
              /\ pc' = "error"
              /\ UNCHANGED artifacts
  /\ UNCHANGED <<loadVars, splitVars, modelVars, trainVars, restoreAtEnd>>

\* import tf2onnx; tf2onnx.convert.from_keras(..., output_path="gesture_cnn.onnx")
Export ==
  /\ pc = "export"
  /\ \E ok \in BOOLEAN :
       /\ pc' = AfterExport(ok)
       /\ IF ok
            THEN artifacts' = artifacts \cup {"gesture_cnn.onnx"} /\ UNCHANGED err
            ELSE /\ err' = [stage |-> "tf2onnx.convert.from_keras",
                            kind |-> "gesture_cnn.onnx", cls |-> NoClass]
                 /\ UNCHANGED artifacts
  /\ UNCHANGED <<loadVars, splitVars, modelVars, trainVars, restoreAtEnd>>

----------------------------------------------------------------------------
(* Specifications *)

RECURSIVE Repeat(_, _)
Repeat(v, k) == IF k = 0 THEN <<>> ELSE <<v>> \o Repeat(v, k - 1)

RECURSIVE LabelsUpTo(_, _)
LabelsUpTo(counts, c) ==
  IF c < 0 THEN <<>> ELSE LabelsUpTo(counts, c - 1) \o Repeat(c, counts[c])

InitRest ==
  /\ y_tr = NoValue /\ y_val = NoValue /\ class_weights = NoValue
  /\ err = NoErr
  /\ layers = <<>> /\ baseTrainable = TRUE
  /\ lr = [base |-> 0, decays |-> 0]
  /\ phase = 0 /\ epoch = 0
  /\ weights = <<0, 0>>
  /\ es = NoValue /\ rlr = NoValue
  /\ hist = [minLoss |-> Inf, minPass |-> 0, stale |-> 0, decays |-> 0, lastLoss |-> Inf]
  /\ fits = [started |-> <<0, 0>>, ended |-> <<0, 0>>, passes |-> <<0, 0>>,
             early |-> <<FALSE, FALSE>>]
  /\ artifacts = {}
  /\ restoreAtEnd \in BOOLEAN

\* start of the script
InitLoad ==
  /\ pc = "load" /\ ci = 0 /\ fi = 0
  /\ X = <<>> /\ y = <<>>
  /\ warns = 0
  /\ seen = [files |-> 0, bad |-> 0, last |-> NoValue]
  /\ InitRest

\* load_all has returned a dataset with counts[c] valid images of class c
Loaded(counts) ==
  /\ pc = "split" /\ ci = NumClasses - 1 /\ fi = counts[NumClasses - 1]
  /\ y = LabelsUpTo(counts, NumClasses - 1)
  /\ X = Repeat(Sample, Len(y))
  /\ warns = 0
  /\ seen = [files |-> Len(y), bad |-> 0, last |-> NoValue]
  /\ InitRest

\* datasets of the pipeline runs: NumClasses images per class (the smallest balanced
\* dataset train_test_split accepts), but 0, 1 or NumClasses images of the first class
PipelineCounts ==
  { [c \in Classes |-> IF c = 0 THEN v ELSE NumClasses] : v \in {0, 1, NumClasses} }

Init == \E counts \in PipelineCounts : Loaded(counts)

InitSplit == \E counts \in [Classes -> 0 .. MaxCount] : Loaded(counts)

NextLoad == LoadFile \/ NextClass \/ LoadDone

NextSplit == SplitOk \/ SplitFail \/ ClassWeightsOk \/ ClassWeightsFail \/ BuildModel

Next ==
  \/ SplitOk \/ SplitFail \/ ClassWeightsOk \/ ClassWeightsFail \/ BuildModel
  \/ TrainBegin \/ Epoch \/ Unfreeze \/ Save \/ Export

\* the pipeline from the loaded dataset to the exported model
Spec == Init /\ [][Next]_vars

\* the Dataset Assembler over every directory content of at most MaxFiles files per class
SpecLoad == InitLoad /\ [][NextLoad]_vars

\* Split & Balance over every dataset of at most MaxCount images per class
SpecSplit == InitSplit /\ [][NextSplit]_vars

----------------------------------------------------------------------------
(* Properties *)

ExportStages == {"model.save", "tf2onnx.convert.from_keras"}
Outputs == {"best_cnn.keras", "gesture_cnn.onnx"}

\* the unfreeze loop has run
Phase2Begun ==
  \/ pc \in {"fine_begin", "fine", "save", "export", "done"}
  \/ pc = "error" /\ err.stage \in ExportStages

\* the fit call whose end state is the current one (0 if none)
EndedPhase ==
  IF pc \in {"unfreeze", "fine_begin"} THEN 1
  ELSE IF pc \in {"save", "export", "done"} \/ (pc = "error" /\ err.stage \in ExportStages)
    THEN 2 ELSE 0

\* C1 (original): every class weight equals
\* (training samples) / (classes * training samples of the class)
C1_WeightsFromTrainSplit ==
  class_weights # NoValue =>
    \A c \in Classes :
      class_weights[c].num * (NumClasses * y_tr[c]) = Total(y_tr) * class_weights[c].den

\* C1 (amended): every class weight equals
\* (loaded samples) / (classes * loaded samples of the class), counted over the
\* full label array y, training and validation samples together
C1_WeightsFromFullDataset ==
  class_weights # NoValue =>
    \A c \in Classes :
      /\ class_weights[c].den > 0
      /\ class_weights[c].num * (NumClasses * CountIn(y, c)) = Len(y) * class_weights[c].den

\* weights computed for a dataset whose training split has other proportions than y
C1_Witness ==
  /\ class_weights # NoValue
  /\ \E c \in Classes : Len(y) * y_tr[c] # Total(y_tr) * CountIn(y, c)

C3_PhaseOrder ==
  /\ fits.started[1] <= 1 /\ fits.started[2] <= 1
  /\ fits.ended[1] <= fits.started[1] /\ fits.ended[2] <= fits.started[2]
  /\ fits.started[2] = 1 => fits.ended[1] = 1
  /\ (fits.ended[1] = 1 /\ fits.started[2] = 0) => pc \in {"unfreeze", "fine_begin"}
  /\ (pc \in {"save", "export", "done"} \/ err.stage \in ExportStages) =>
       fits.started[2] = 1 /\ fits.ended[2] = 1

\* a finished run whose head phase was ended by early stopping
C3_Witness ==
  /\ pc = "done"
  /\ fits.early[1] /\ fits.passes[1] < EpochsHead

\* C4: at the end of each fit the model holds the weights of the pass of that fit with
\* the lowest validation loss
C4_BestWeightsAtPhaseEnd ==
  EndedPhase # 0 => weights = <<EndedPhase, hist.minPass>>

\* C5: the head fit runs at most 10 passes and the fine-tune fit at most 30; a fit goes
\* on while fewer than 5 passes in a row failed to improve val_loss and ends before its
\* last pass only after 5 such passes; after 3 passes in a row without improvement the
\* learning rate has been decayed (lr = base * 0.3^decays), so before any early stop
C5_Termination ==
  /\ phase = 1 => epoch <= EpochsHead
  /\ phase = 2 => epoch <= EpochsFine
  /\ fits.passes[1] <= EpochsHead /\ fits.passes[2] <= EpochsFine
  /\ pc \in {"head", "fine"} => hist.stale < PatienceES
  /\ EndedPhase # 0 =>
       /\ fits.early[EndedPhase] <=> hist.stale = PatienceES
       /\ fits.passes[EndedPhase] < (IF EndedPhase = 1 THEN EpochsHead ELSE EpochsFine)
            => fits.early[EndedPhase]
       /\ fits.early[EndedPhase] => hist.decays >= 1
  /\ phase # 0 => (hist.stale >= PatienceLR => hist.decays >= 1)
  /\ pc \in {"head", "unfreeze"} => lr = [base |-> LrHead, decays |-> hist.decays]
  /\ (pc = "fine" \/ EndedPhase = 2) => lr = [base |-> LrFine, decays |-> hist.decays]

\* the fine-tune fit was stopped early, after a decay of the learning rate
C5_Witness ==
  /\ pc = "save"
  /\ fits.early[2] /\ fits.passes[2] < EpochsFine
  /\ lr.decays >= 1

\* C6: once the script is past Split & Balance with a class of 0 or 1 loaded samples or
\* of exactly 1 training sample, it has failed with an error that names such a class
C6_ClassIdentifyingError ==
  LET short == {c \in Classes :
                  CountIn(y, c) <= 1 \/ (y_tr # NoValue /\ y_tr[c] = 1)}
  IN (short # {} /\ pc \notin {"split", "class_weights"}) =>
       (pc = "error" /\ err.cls \in short)

C8_NoArtifactBeforeTrained ==
  artifacts # {} => (fits.ended[1] = 1 /\ fits.ended[2] = 1)

\* the first output file has been written
C8_Witness ==
  /\ pc = "export"
  /\ "best_cnn.keras" \in artifacts

\* C9: every file that does not decode or is not 216 x 216 prints exactly one line and
\* adds nothing to X or y; every other file adds one 216 x 216 x 3 sample and its label;
\* loading never fails, and X and y have the same length
C9_InvalidSkipped ==
  /\ Len(X) = Len(y)
  /\ warns = seen.bad
  /\ Len(X) = seen.files - seen.bad
  /\ \A i \in 1 .. Len(X) : X[i] = Sample
  /\ pc \in {"load", "split"} /\ err = NoErr

\* a valid file was loaded after an invalid one had been skipped
C9_Witness ==
  /\ seen.bad > 0 /\ Len(X) > 0
  /\ seen.files > 0 /\ Valid(seen.last)
  /\ pc = "split"

\* C10: when the fine-tune fit starts, both callbacks' counters are 0, neither holds a
\* best value or best weights from the head fit, the learning rate is 1e-4 undecayed,
\* and so the first fine-tune pass counts as an improvement whatever its val_loss
C10_FreshCallbackState ==
  /\ pc = "fine_begin" => lr = [base |-> LrFine, decays |-> 0]
  /\ (pc = "fine" /\ epoch = 0) =>
       /\ es.wait = 0 /\ es.best = Inf /\ es.best_weights = NoValue
       /\ rlr.wait = 0 /\ rlr.best = Inf
       /\ lr = [base |-> LrFine, decays |-> 0]
  /\ (pc = "fine" /\ epoch = 1) =>
       /\ es.wait = 0 /\ es.best = hist.lastLoss /\ es.best_weights = <<2, 1>>
       /\ rlr.wait = 0 /\ rlr.best = hist.lastLoss
       /\ lr = [base |-> LrFine, decays |-> 0]

\* the fine-tune fit starts after a head fit that ended with exhausted patience and a
\* decayed learning rate
C10_Witness ==
  /\ pc = "fine" /\ epoch = 0
  /\ fits.early[1]

====
